---- MODULE Spec2Model ----
(***************************************************************************)
(* GridSignalVisual (visbrain/visuals/GridSignalVisual.py): a grid of      *)
(* signals drawn from three vertex buffers (position, index, colour).      *)
(*                                                                         *)
(* Arrays are records [shape, flat]: shape is the tuple of dimensions and  *)
(* flat the elements in C (row-major) order, flat[p + 1] holding the       *)
(* element whose C-order offset is p.  Multi-indices are 0-based tuples.   *)
(* Floating point is idealised: a normalised sample is an exact reduced    *)
(* fraction <<num, den>>, and <<0, 0>> stands for nan (0 / 0).             *)
(***************************************************************************)
EXTENDS Integers, Sequences, FiniteSets, TLC

VARIABLES _sh, _n, _axis, _color, _scale, _uscale, _space,
          u_scale, u_space, u_size, u_n,
          _dbuffer, _ibuffer, _cbuffer,
          _g_size, _ori_shape, _opt_shape, _sig_index,
          volume, call

vars == <<_sh, _n, _axis, _color, _scale, _uscale, _space,
          u_scale, u_space, u_size, u_n,
          _dbuffer, _ibuffer, _cbuffer,
          _g_size, _ori_shape, _opt_shape, _sig_index, volume, call>>

(***************************************************************************)
(* Bounds of the explored inputs.                                          *)
(***************************************************************************)
\* largest extent of one array dimension
MaxDim == 2
\* largest number of elements of an input array
MaxSize == 8
\* number of distinct outcomes of one np.random.uniform draw
MaxDraw == 2

\* largest rank of the array a visual is built from, where data loads or
\* parameter updates follow
MaxInitRank == 1

\* the ranks set_data handles
Ranks == 1 .. 3

(***************************************************************************)
(* numpy array primitives                                                  *)
(***************************************************************************)
RECURSIVE Size(_)
Size(shape) == IF shape = <<>> THEN 1 ELSE Head(shape) * Size(Tail(shape))

RECURSIVE RavelC(_, _)
RavelC(idx, shape) ==
    IF idx = <<>> THEN 0
    ELSE Head(idx) * Size(Tail(shape)) + RavelC(Tail(idx), Tail(shape))

RECURSIVE UnravelC(_, _)
UnravelC(p, shape) ==
    IF shape = <<>> THEN <<>>
    ELSE <<p \div Size(Tail(shape))>>
             \o UnravelC(p % Size(Tail(shape)), Tail(shape))

RECURSIVE RavelF(_, _)
RavelF(idx, shape) ==
    IF idx = <<>> THEN 0
    ELSE Head(idx) + Head(shape) * RavelF(Tail(idx), Tail(shape))

RECURSIVE UnravelF(_, _)
UnravelF(p, shape) ==
    IF shape = <<>> THEN <<>>
    ELSE <<p % Head(shape)>> \o UnravelF(p \div Head(shape), Tail(shape))

\* arr[idx]
At(arr, idx) == arr.flat[RavelC(idx, arr.shape) + 1]

\* np.arange(m)
arange(m) == [shape |-> <<m>>, flat |-> [p \in 1 .. m |-> p - 1]]

\* arr.reshape(shape), C order; the caller checks that the sizes agree
reshape(arr, shape) == [shape |-> shape, flat |-> arr.flat]

\* arr.reshape(..) is possible
CanReshape(arr, shape) == Size(arr.shape) = Size(shape)

\* np.reshape without order='F'
reshapeForgotOrder(arr, shape) == [shape |-> shape, flat |-> arr.flat]

\* np.reshape(arr, shape, order='F'): read and write in Fortran order
reshapeF(arr, shape) ==
    [shape |-> shape,
     flat  |-> [p \in 1 .. Size(shape) |->
                  At(arr, UnravelF(RavelF(UnravelC(p - 1, shape), shape),
                                   arr.shape))]]

\* numpy's normalisation of an axis number; -1 - ndim .. : out of range
NormAxis(a, ndim) == IF a < 0 THEN a + ndim ELSE a

AxisInRange(a, ndim) == (-ndim <= a) /\ (a < ndim)

\* exchange entries i and j (0-based) of a tuple
SwapTuple(t, i, j) ==
    [k \in 1 .. Len(t) |->
        IF k = i + 1 THEN t[j + 1] ELSE IF k = j + 1 THEN t[i + 1] ELSE t[k]]

\* np.swapaxes(arr, a, b), both axes in range
swapaxes(arr, a, b) ==
    LET i  == NormAxis(a, Len(arr.shape))
        j  == NormAxis(b, Len(arr.shape))
        sh == SwapTuple(arr.shape, i, j)
    IN  [shape |-> sh,
         flat  |-> [p \in 1 .. Size(sh) |->
                      At(arr, SwapTuple(UnravelC(p - 1, sh), i, j))]]

\* arr[np.newaxis, ...]
newaxis(arr) == [shape |-> <<1>> \o arr.shape, flat |-> arr.flat]

\* np.fliplr of a 2-D array: the columns reversed, not the rows
fliplr(arr) ==
    [shape |-> arr.shape,
     flat  |-> [p \in 1 .. Size(arr.shape) |->
                  LET rc == UnravelC(p - 1, arr.shape)
                  IN  arr.flat[rc[1] * arr.shape[2]
                               + (arr.shape[2] - 1 - rc[2]) + 1]]]

\* np.flipud of a 2-D array
flipud(arr) ==
    [shape |-> arr.shape,
     flat  |-> [p \in 1 .. Size(arr.shape) |->
                  LET rc == UnravelC(p - 1, arr.shape)
                  IN  At(arr, <<arr.shape[1] - 1 - rc[1], rc[2]>>)]]

\* list(arr.shape)[0:-1]
ShapeButLast(arr) == SubSeq(arr.shape, 1, Len(arr.shape) - 1)


\* np.repeat(seq, k): every element k times in a row
repeat(seq, k) == [i \in 1 .. Len(seq) * k |-> seq[((i - 1) \div k) + 1]]

\* np.tile(seq, k): the whole sequence k times
tile(seq, k) == [i \in 1 .. Len(seq) * k |-> seq[((i - 1) % Len(seq)) + 1]]

\* np.c_[a, b, c] of three 1-D arrays of one length: the rows (a_i, b_i, c_i)
c_(a, b, c) == [i \in 1 .. Len(a) |-> <<a[i], b[i], c[i]>>]

(***************************************************************************)
(* Exact fractions for the normalised samples                              *)
(***************************************************************************)
Abs(x) == IF x < 0 THEN -x ELSE x

RECURSIVE GCD(_, _)
GCD(a, b) == IF b = 0 THEN a ELSE GCD(b, a % b)

NaN == <<0, 0>>

\* num / den, den >= 0, in lowest terms; x / 0 is nan here because the
\* only division by zero of set_data is 0 / 0
Frac(num, den) ==
    IF den = 0 THEN NaN
    ELSE LET g == GCD(Abs(num), den) IN <<num \div g, den \div g>>

RECURSIVE SumSeq(_)
SumSeq(s) == IF s = <<>> THEN 0 ELSE Head(s) + SumSeq(Tail(s))

MaxOf(S) == CHOOSE x \in S : \A y \in S : y <= x

\* row j (0-based) of an (m, n) array, as a tuple
RowOf(arr, j) == [t \in 1 .. arr.shape[2] |-> At(arr, <<j, t - 1>>)]

\* data -= data.mean(axis=-1, keepdims=True)
\* data /= np.abs(data).max(axis=-1, keepdims=True)
\* on an (m, n) array; the result is the flat (m * n) tuple of fractions.
\* With S the sum of a row, n * x - S is n times the de-meaned sample.
Normalise(arr) ==
    LET n == arr.shape[2]
        dm(j) == [t \in 1 .. n |-> n * RowOf(arr, j)[t] - SumSeq(RowOf(arr, j))]
        mx(j) == MaxOf({Abs(dm(j)[t]) : t \in 1 .. n})
    IN  [p \in 1 .. Size(arr.shape) |->
            LET j == (p - 1) \div n
                t == ((p - 1) % n) + 1
            IN  Frac(dm(j)[t], mx(j))]

(***************************************************************************)
(* Collaborators from visbrain.utils                                       *)
(***************************************************************************)
\* ndsubplot(m): near-square grid (rows, cols) with rows * cols >= m
ndsubplot(m) ==
    LET cols == CHOOSE k \in 1 .. m : k * k >= m /\ (k - 1) * (k - 1) < m
    IN  <<(m + cols - 1) \div cols, cols>>

\* PrepareData._prepare_data with demean and detrend forced off
_prepare_data(arr) == arr

\* color2vb(color, length=m)[:, 0:3]: one RGB row per channel, in tenths
color2vb(color, m) ==
    [j \in 1 .. m |-> IF color = "red" THEN <<10, 0, 0>> ELSE <<0, 0, 10>>]

\* vispy_array: cast to contiguous float32, values kept
vispy_array(x) == x

\* np.random.uniform(size=(m, 3), low=.2, high=.8): outcome number d of the
\* draw, in tenths
uniform(d, m) ==
    [j \in 1 .. m |-> << 2 + ((d + j) % 7),
                          2 + ((2 * d + j) % 7),
                          2 + ((3 * d + 2 * j) % 7) >>]

(***************************************************************************)
(* GridSignalVisual.set_data                                               *)
(***************************************************************************)
\* the arguments left at their default None
None == <<>>
NoData == [given |-> FALSE, shape |-> <<>>, flat |-> <<>>]

\* the object, as set_data and the setters read it
self == [_sh |-> _sh, _n |-> _n, _axis |-> _axis,
         _dbuffer |-> _dbuffer, _ibuffer |-> _ibuffer, _cbuffer |-> _cbuffer,
         u_size |-> u_size, _g_size |-> _g_size, _ori_shape |-> _ori_shape,
         _opt_shape |-> _opt_shape, _sig_index |-> _sig_index,
         volume |-> volume]

\* len(self)
len(st) == st._n

\* the axis set_data works with: the argument when it is an int, the stored
\* axis otherwise, and -1 replaced by the last axis of the FIRST data set
ResolveAxis(st, axis) ==
    LET a == IF axis # None THEN axis[1] ELSE st._axis
    IN  IF a = -1 THEN Len(st._sh) - 1 ELSE a

\* the (n_rows, n_cols, n_time) view of the input and the first grid size;
\* data of any other rank leaves g_size unbound, and its first use raises
Canonical(data, axis) ==
    LET ndim == Len(data.shape)
        arr  == [shape |-> data.shape, flat |-> data.flat]
    IN  CASE ndim = 1 ->
               [raised |-> "none",
                data   |-> reshape(arr, <<1, 1, Size(arr.shape)>>),
                g_size |-> <<1, 1>>]
          [] ndim = 2 ->
               LET d == IF axis = 0 THEN swapaxes(arr, 0, 1) ELSE arr
               IN  [raised |-> "none",
                    data   |-> newaxis(d),
                    g_size |-> <<d.shape[1], 1>>]
          [] ndim = 3 ->
               IF axis # ndim - 1
               THEN IF AxisInRange(axis, ndim)
                    THEN LET d == swapaxes(arr, axis, -1)
                         IN  [raised |-> "none", data |-> d,
                              g_size |-> <<d.shape[1], d.shape[2]>>]
                    ELSE [raised |-> "AxisError", data |-> arr,
                          g_size |-> <<>>]
               ELSE [raised |-> "none", data |-> arr,
                     g_size |-> <<arr.shape[1], arr.shape[2]>>]
          [] OTHER ->
               [raised |-> "UnboundLocalError", data |-> arr, g_size |-> <<>>]

\* the index buffer of an (n_rows, n_cols) grid of m signals of n samples
IndexArray(n_rows, n_cols, n, m) ==
    c_(repeat(repeat(arange(n_cols).flat, n_rows), n),
       repeat(tile(arange(n_rows).flat, n_cols), n),
       tile(arange(n).flat, m))

\* lines 201-211: the buffers and the grid size, from the (rows, cols, n)
\* volume data3 of m signals
Upload(st2, data3, m, g_size) ==
    IF ~ CanReshape(data3, <<m, len(st2)>>)
    THEN [raised |-> "ValueError", st |-> st2]
    ELSE [raised |-> "none",
          st |-> [st2 EXCEPT
                    !._dbuffer = vispy_array(Normalise(_prepare_data(
                                     reshapeF(data3, <<m, len(st2)>>)))),
                    !._ibuffer = vispy_array(IndexArray(g_size[1], g_size[2],
                                                        len(st2), m)),
                    !.u_size   = g_size,
                    !._g_size  = g_size,
                    !.volume   = data3]]

\* lines 183-187: the volume and the permutation on the grid opt
OptimalGrid(st1, data, m, sig_index, opt) ==
    IF ~ CanReshape(data, <<opt[1], opt[2], len(st1)>>)
       \/ ~ CanReshape(sig_index, opt)
    THEN [raised |-> "ValueError", st |-> st1]
    ELSE Upload([st1 EXCEPT !._opt_shape = opt,
                            !._sig_index = flipud(reshape(sig_index, opt))],
                reshape(data, <<opt[1], opt[2], len(st1)>>), m, opt)

\* lines 175-182: the signal numbers, the original shape, the planned grid
SignalsIndex(st, data, m, g_size) ==
    OptimalGrid([st EXCEPT !._ori_shape = ShapeButLast(data)], data, m,
                reshape(arange(m), g_size), ndsubplot(m))

\* the data part of set_data, from the canonical view can of the input: the
\* fields as the call leaves them and the exception that ended it
Geometry(st, can) ==
    IF can.raised # "none"
    THEN [raised |-> can.raised, st |-> st]
    ELSE SignalsIndex(st, can.data, Size(ShapeButLast(can.data)), can.g_size)

\* lines 157-211
SetGeometry(st, data, axis) == Geometry(st, Canonical(data, axis))

\* the colours sent to the position buffer instead of the colour buffer
SetColorWrongBuffer(st, color, d) ==
    [st EXCEPT !._dbuffer =
        repeat(IF color = "random"
               THEN uniform(d, Size(st._g_size))
               ELSE [j \in 1 .. Size(st._g_size) |-> <<0, 0, 10>>],
               st._n)]

\* the colour part of set_data (lines 214-226) on the fields st; d is the
\* outcome of the random draw
SetColor(st, color, d) ==
    [st EXCEPT !._cbuffer =
        vispy_array(repeat(IF color = "random"
                           THEN uniform(d, Size(st._g_size))
                           ELSE color2vb(color, Size(st._g_size)),
                           len(st)))]

\* lines 213-226, after a data part that ended as geo
ColorPart(geo, color, d) ==
    IF geo.raised # "none" \/ color = "None" THEN geo
    ELSE [raised |-> "none", st |-> SetColor(geo.st, color, d)]

\* set_data(data, axis, color)
set_data(st, data, axis, color, d) ==
    ColorPart(IF data.given THEN SetGeometry(st, data, ResolveAxis(st, axis))
              ELSE [raised |-> "none", st |-> st],
              color, d)

(***************************************************************************)
(* Inputs                                                                  *)
(***************************************************************************)
\* arrays of rank 1 to 3, and arrays of rank 4, which set_data rejects
\* whatever their extents
Shapes ==
    {s \in UNION {[1 .. r -> 1 .. MaxDim] : r \in Ranks} : Size(s) <= MaxSize}
      \cup {<<1, 1, 1, 1>>}

\* the element at C-order offset p of an input array
Sample(p) == (p * p * p + p) % 5

Data(shape) ==
    [given |-> TRUE, shape |-> shape,
     flat  |-> [p \in 1 .. Size(shape) |-> Sample(p - 1)]]

Axes     == {-1, 0, 2, 3}
AxisArgs == {None} \cup {<<a>> : a \in Axes}
Colors   == {"None", "random", "red"}

\* scale and space arguments: the Python type and the value
ScaleArgs == {[kind |-> "tuple", val |-> <<1, 1>>],
              [kind |-> "tuple", val |-> <<2, 1>>],
              [kind |-> "list",  val |-> <<1, 1>>],
              [kind |-> "tuple", val |-> <<1, 1, 1>>]}
SpaceArgs == {[kind |-> "float", val |-> <<2>>],
              [kind |-> "float", val |-> <<3>>],
              [kind |-> "int",   val |-> <<2>>]}

\* an attribute that was never assigned
Undefined  == [kind |-> "undefined", val |-> <<>>]
UndefArray == [shape |-> <<0, 0>>, flat |-> <<>>]

\* the record of the last call: what was called, how it ended, whether it
\* requested a redraw (self.update()), and what it was given and returned
Call(op, raised, update) ==
    [op |-> op, raised |-> raised, update |-> update,
     data |-> FALSE, wellformed |-> FALSE, arg |-> Undefined]

(***************************************************************************)
(* Setters and queries                                                     *)
(***************************************************************************)
\* scale.setter on cur = [_uscale, _scale, u_scale]; after freeze() (line
\* 131) an attribute that does not exist cannot be created
scale_setter(cur, value, frozen) ==
    IF value.kind = "tuple"
    THEN IF frozen /\ cur._uscale = Undefined
         THEN [raised |-> "AttributeError", update |-> FALSE, st |-> cur]
         ELSE [raised |-> "none", update |-> TRUE,
               st |-> [_uscale |-> value, _scale |-> value, u_scale |-> value]]
    ELSE [raised |-> "none", update |-> FALSE, st |-> cur]

\* space.setter on cur = [_space, u_space]
space_setter(cur, value, frozen) ==
    IF value.kind = "float"
    THEN IF frozen /\ cur._space = Undefined
         THEN [raised |-> "AttributeError", update |-> FALSE, st |-> cur]
         ELSE [raised |-> "none", update |-> TRUE,
               st |-> [_space |-> value, u_space |-> value]]
    ELSE [raised |-> "none", update |-> FALSE, st |-> cur]

\* _convert_row_cols(row, col); any exception gives (row, col) back
_convert_row_cols(st, row, col) ==
    LET sig == st._sig_index
    IN  IF row < sig.shape[1] /\ col < sig.shape[2]
           /\ CanReshape(sig, st._ori_shape)
        THEN LET index == At(sig, <<row, col>>)
                 resh  == reshape(sig, st._ori_shape)
                 first == CHOOSE p \in 1 .. Size(sig.shape) :
                             /\ resh.flat[p] = index
                             /\ \A q \in 1 .. p - 1 : resh.flat[q] # index
                 idx   == UnravelC(first - 1, st._ori_shape)
             IN  <<idx[1], idx[2]>>
        ELSE <<row, col>>

(***************************************************************************)
(* Construction                                                            *)
(***************************************************************************)
\* the assertions of __init__ (lines 90-94) on the modelled arguments
InitAccepts(data, axis, space, scale) ==
    /\ Len(data.shape) <= 3
    /\ axis # None
    /\ space.kind \in {"int", "float"}
    /\ scale.kind \in {"tuple", "list"} /\ Len(scale.val) = 2

\* the object when __init__ calls set_data (lines 106-127)
Fresh(data, axis) ==
    [_sh |-> data.shape,
     _n  |-> data.shape[NormAxis(axis[1], Len(data.shape)) + 1],
     _axis |-> axis[1],
     _dbuffer |-> <<Frac(0, 1), Frac(0, 1), Frac(0, 1)>>,
     _ibuffer |-> << <<0, 0, 0>> >>,
     _cbuffer |-> << <<0, 0, 0>> >>,
     u_size |-> <<1, 1>>, _g_size |-> <<>>, _ori_shape |-> <<>>,
     _opt_shape |-> <<>>, _sig_index |-> UndefArray, volume |-> UndefArray]

\* the defaults of __init__ (lines 86-87)
DefaultSpace == [kind |-> "float", val |-> <<2>>]
DefaultScale == [kind |-> "tuple", val |-> <<1, 1>>]

\* the object __init__ returns: r is what its set_data call leaves, sc and
\* sp what the scale and the space setters leave
Built(r, sc, sp, color) ==
    /\ r.raised = "none"
    /\ _sh = r.st._sh
    /\ _n = r.st._n
    /\ _axis = r.st._axis
    /\ _color = color
    /\ _scale = sc._scale
    /\ _uscale = sc._uscale
    /\ u_scale = sc.u_scale
    /\ _space = sp._space
    /\ u_space = sp.u_space
    /\ u_n = r.st._n
    /\ u_size = r.st.u_size
    /\ _dbuffer = r.st._dbuffer
    /\ _ibuffer = r.st._ibuffer
    /\ _cbuffer = r.st._cbuffer
    /\ _g_size = r.st._g_size
    /\ _ori_shape = r.st._ori_shape
    /\ _opt_shape = r.st._opt_shape
    /\ _sig_index = r.st._sig_index
    /\ volume = r.st.volume
    /\ call = Call("__init__", "none", FALSE)

\* the objects __init__ returns for arrays of the given ranks and space,
\* scale and colour arguments of the given sets
Construct(ranks, spaces, scales, colors) ==
    \E shape \in Shapes, axis \in AxisArgs, color \in colors,
       d \in 1 .. MaxDraw, space \in spaces, scale \in scales :
       /\ InitAccepts(Data(shape), axis, space, scale)
       /\ Len(shape) \in ranks
       /\ AxisInRange(axis[1], Len(shape))
       /\ color = "random" \/ d = 1
       /\ Built(set_data(Fresh(Data(shape), axis), Data(shape), axis, color, d),
                scale_setter([_uscale |-> Undefined, _scale |-> Undefined,
                              u_scale |-> Undefined], scale, FALSE).st,
                space_setter([_space |-> Undefined, u_space |-> Undefined],
                             space, FALSE).st,
                color)

(***************************************************************************)
(* Operations                                                              *)
(***************************************************************************)
\* the input is an array of rank 1 to 3 and the time axis is one of its axes
WellFormed(st, data, axis) ==
    /\ data.given
    /\ Len(data.shape) \in 1 .. 3
    /\ AxisInRange(ResolveAxis(st, axis), Len(data.shape))

\* the end of a set_data call that left r: the fields it can write, and the
\* record of the call
Done(op, data, axis, r) ==
    /\ _dbuffer' = r.st._dbuffer
    /\ _ibuffer' = r.st._ibuffer
    /\ _cbuffer' = r.st._cbuffer
    /\ u_size' = r.st.u_size
    /\ _g_size' = r.st._g_size
    /\ _ori_shape' = r.st._ori_shape
    /\ _opt_shape' = r.st._opt_shape
    /\ _sig_index' = r.st._sig_index
    /\ volume' = r.st.volume
    /\ call' = [Call(op, r.raised, FALSE) EXCEPT
                  !.data = data.given,
                  !.wellformed = WellFormed(self, data, axis)]

\* set_data(data, axis): an array, and the colours left as they are
SetData ==
    \E shape \in Shapes, axis \in AxisArgs :
       /\ Done("set_data", Data(shape), axis,
               set_data(self, Data(shape), axis, "None", 1))
       /\ UNCHANGED <<_sh, _n, _axis, _color, _scale, _uscale, _space,
                      u_scale, u_space, u_n>>

\* set_data(color=color): no array
SetDataColor ==
    \E color \in Colors, d \in 1 .. MaxDraw :
       /\ color = "random" \/ d = 1
       /\ Done("set_data", NoData, None,
               set_data(self, NoData, None, color, d))
       /\ UNCHANGED <<_sh, _n, _axis, _color, _scale, _uscale, _space,
                      u_scale, u_space, u_n>>

\* color.setter
ColorSetter ==
    \E value \in Colors, d \in 1 .. MaxDraw :
       /\ value = "random" \/ d = 1
       /\ _color' = value
       /\ Done("color", NoData, None,
               set_data(self, NoData, None, value, d))
       /\ UNCHANGED <<_sh, _n, _axis, _scale, _uscale, _space,
                      u_scale, u_space, u_n>>

\* self.scale = value
ScaleSetter ==
    \E value \in ScaleArgs :
       LET r == scale_setter([_uscale |-> _uscale, _scale |-> _scale,
                              u_scale |-> u_scale], value, TRUE)
       IN  /\ _uscale' = r.st._uscale
           /\ _scale' = r.st._scale
           /\ u_scale' = r.st.u_scale
           /\ call' = [Call("scale", r.raised, r.update) EXCEPT !.arg = value]
           /\ UNCHANGED <<_sh, _n, _axis, _color, _space, u_space, u_size, u_n,
                          _dbuffer, _ibuffer, _cbuffer, _g_size, _ori_shape,
                          _opt_shape, _sig_index, volume>>

\* self.space = value
SpaceSetter ==
    \E value \in SpaceArgs :
       LET r == space_setter([_space |-> _space, u_space |-> u_space],
                             value, TRUE)
       IN  /\ _space' = r.st._space
           /\ u_space' = r.st.u_space
           /\ call' = [Call("space", r.raised, r.update) EXCEPT !.arg = value]
           /\ UNCHANGED <<_sh, _n, _axis, _color, _scale, _uscale, u_scale,
                          u_size, u_n, _dbuffer, _ibuffer, _cbuffer, _g_size,
                          _ori_shape, _opt_shape, _sig_index, volume>>

Next ==
    \/ SetData

\* data loaded into a visual built with the default space and scale and a
\* uniform colour
Init == Construct(1 .. MaxInitRank, {DefaultSpace}, {DefaultScale}, {"red"})

Spec == Init /\ [][Next]_vars

\* colour updates of a visual built from an array of any rank with any of
\* the colours
InitColor == Construct(Ranks, {DefaultSpace}, {DefaultScale}, Colors)

NextColor ==
    \/ SetDataColor
    \/ ColorSetter

SpecColor == InitColor /\ [][NextColor]_vars

\* the render parameters of a visual built with any accepted space and scale
InitParams == Construct(1 .. MaxInitRank, SpaceArgs, ScaleArgs, {"red"})

NextParams ==
    \/ ScaleSetter
    \/ SpaceSetter

SpecParams == InitParams /\ [][NextParams]_vars

(***************************************************************************)
(* Properties                                                              *)
(***************************************************************************)
\* the multi-indices of a 2-D shape
Indices2(shape) ==
    {<<a, b>> : a \in 0 .. shape[1] - 1, b \in 0 .. shape[2] - 1}

\* the last call loaded an array and ended without an exception
Loaded ==
    \/ call.op = "__init__"
    \/ call.op = "set_data" /\ call.data /\ call.raised = "none"

\* the last call was a colour-only update
ColorOnly == call.op \in {"set_data", "color"} /\ ~ call.data

\* C1: a set_data call that raises leaves the position, index and colour
\* buffers, the permutation, the original shape, the optimal shape and the
\* grid shape as they were before the call.
C1_FailedSetDataKeepsState ==
    [][(call'.op = "set_data" /\ call'.raised # "none")
          => UNCHANGED <<_dbuffer, _ibuffer, _cbuffer, _sig_index,
                         _ori_shape, _opt_shape, _g_size>>]_vars

\* C2: a set_data call with a colour and no array, made directly or by the
\* colour setter, leaves the position buffer, the index buffer, the grid
\* shape, the permutation and the original shape unchanged.
C2_ColorOnlyKeepsGeometry ==
    [][ColorOnly' => UNCHANGED <<_dbuffer, _ibuffer, u_size, _g_size,
                                 _sig_index, _ori_shape, _opt_shape>>]_vars

\* a colour-only set_data('random') has refilled the colour buffer of a
\* 2 x 2 grid
C2_Witness ==
    /\ call.op = "set_data" /\ ~ call.data /\ call.raised = "none"
    /\ _g_size = <<2, 2>>
    /\ _cbuffer = repeat(uniform(2, 4), _n)

\* C3: after a data load, for every multi-index i of the original shape,
\* _convert_row_cols applied to the grid cell whose permutation entry is
\* the flattened i returns i.
C3_RoundTrip ==
    Loaded =>
      \A i \in Indices2(_ori_shape) :
         \A cell \in Indices2(_sig_index.shape) :
            At(_sig_index, cell) = RavelC(i, _ori_shape)
              => _convert_row_cols(self, cell[1], cell[2]) = i

\* C4: set_data with an array of rank 1 to 3 and a time axis in range
\* succeeds, on a grid with at least as many cells as the array has
\* channels, with a volume of rows * cols channels and rows * cols * n
\* index triples.
C4_SetDataSucceedsPadded ==
    (call.op = "set_data" /\ call.data /\ call.wellformed)
      => /\ call.raised = "none"
         /\ Size(_g_size) >= Size(_ori_shape)
         /\ ShapeButLast(volume) = _g_size
         /\ Len(_ibuffer) = Size(_g_size) * volume.shape[3]

\* C5: a scale of three elements is rejected with an error and is stored
\* neither as the scale nor as the u_scale uniform.
C5_MalformedScaleRejected ==
    (call.op = "scale" /\ Len(call.arg.val) = 3)
      => /\ call.raised # "none"
         /\ Len(_scale.val) # 3
         /\ Len(_uscale.val) # 3
         /\ Len(u_scale.val) # 3

\* C6: after the scale (the space) is set to a pair (a number) the
\* constructor accepts, the stored value and the uniform equal the argument
\* and a redraw was requested; scale and space are defined from
\* construction on.
C6_ValidParamStored ==
    /\ (call.op = "scale" /\ call.arg.kind \in {"tuple", "list"}
                          /\ Len(call.arg.val) = 2)
         => /\ _scale.val = call.arg.val
            /\ u_scale.val = call.arg.val
            /\ call.update
    /\ (call.op = "space" /\ call.arg.kind \in {"int", "float"})
         => /\ _space.val = call.arg.val
            /\ u_space.val = call.arg.val
            /\ call.update
    /\ _scale # Undefined
    /\ _space # Undefined

\* C8: the permutation has the shape of the grid, and its entry at (r, k)
\* is the row-major number of the cell at row rows - 1 - r, column k.
C8_PermutationFlipped ==
    /\ _sig_index.shape = _g_size
    /\ \A cell \in Indices2(_g_size) :
          At(_sig_index, cell)
            = (_g_size[1] - 1 - cell[1]) * _g_size[2] + cell[2]

\* set_data has loaded a grid of two rows, whose first row holds the
\* signals 2 and 3
C8_Witness ==
    /\ call.op = "set_data" /\ call.data /\ call.raised = "none"
    /\ _g_size = <<2, 2>>
    /\ At(_sig_index, <<0, 0>>) = 2
    /\ At(_sig_index, <<0, 1>>) = 3

\* the samples of the signal at cell (row, col) of a (rows, cols, n) volume
ChannelOf(vol, row, col) ==
    [t \in 1 .. vol.shape[3] |-> At(vol, <<row, col, t - 1>>)]

\* a signal x with its mean removed, divided by its largest magnitude
Normalised(x) ==
    [t \in 1 .. Len(x) |->
        Frac(Len(x) * x[t] - SumSeq(x),
             MaxOf({Abs(Len(x) * x[u] - SumSeq(x)) : u \in 1 .. Len(x)}))]

\* C9: the position and the index buffer have rows * cols * n entries; the
\* index triple (col, row, t) at every vertex is within the grid and the
\* time range, no triple occurs twice, and the position at that vertex is
\* the normalised sample t of the signal the volume holds at (row, col).
C9_BuffersAligned ==
    /\ ShapeButLast(volume) = _g_size
    /\ volume.shape[3] = _n
    /\ Len(_dbuffer) = Size(_g_size) * _n
    /\ Len(_ibuffer) = Size(_g_size) * _n
    /\ \A p \in 1 .. Len(_ibuffer) :
          /\ _ibuffer[p][1] \in 0 .. _g_size[2] - 1
          /\ _ibuffer[p][2] \in 0 .. _g_size[1] - 1
          /\ _ibuffer[p][3] \in 0 .. _n - 1
          /\ _dbuffer[p] = Normalised(ChannelOf(volume, _ibuffer[p][2],
                                                _ibuffer[p][1]))
                                     [_ibuffer[p][3] + 1]
          /\ \A q \in 1 .. Len(_ibuffer) :
                _ibuffer[p] = _ibuffer[q] => p = q

\* set_data has loaded a 2 x 2 grid of signals of two samples in which the
\* signals at (0, 1) and (1, 0) differ after normalisation
C9_Witness ==
    /\ call.op = "set_data" /\ call.data /\ call.raised = "none"
    /\ _g_size = <<2, 2>> /\ _n = 2
    /\ Normalised(ChannelOf(volume, 0, 1)) # Normalised(ChannelOf(volume, 1, 0))

\* C10: the position, index and colour buffers all hold rows * cols * n
\* vertex records, n being len(self) and the u_n uniform.
C10_BuffersSameLength ==
    /\ u_n = _n
    /\ Len(_dbuffer) = Size(_g_size) * _n
    /\ Len(_ibuffer) = Size(_g_size) * _n
    /\ Len(_cbuffer) = Size(_g_size) * _n

====
